---- MODULE Spec2Model ----
(***************************************************************************)
(* core-dispatch: a half-duplex voice dispatch loop.                       *)
(*                                                                         *)
(* Receiver process  (agent_framework/audio/receiver.py):                  *)
(*   the audio callback segments the frame stream into utterances and      *)
(*   hands them to the transcription worker through a bounded queue.       *)
(* Transmitter process (agent_framework/audio/transmitter.py):             *)
(*   the polling thread (_generate_response) selects a persona, keeps the  *)
(*   conversation history and runs the two-pass completion; the delivery   *)
(*   thread (_transmit_responses) synthesises and plays the responses.     *)
(*   Both threads play audio through _play_audio, which asserts the lock   *)
(*   file the receiver's callback looks at.                                *)
(*                                                                         *)
(* Five specifications share the module:                                   *)
(*   Spec      the receiver's segmentation engine, the lock file being     *)
(*             driven by the other process;                                *)
(*   SpecWk    the receiver's transcription worker and the record files    *)
(*             it writes (FairSpecWk adds the event loop's fairness);      *)
(*   SpecTx    the two transmitter threads around _play_audio and the      *)
(*             lock file (FairSpecTx adds the scheduler's fairness);       *)
(*   SpecDs    the polling thread's dispatch of transcript records:        *)
(*             persona selection, history and the completion calls;        *)
(*   SpecLd    the loading of the personas in __init__ and the first       *)
(*             selection made with them.                                   *)
(*                                                                         *)
(* Units.  Durations of the receiver are counted in samples               *)
(* (frames / sample_rate seconds per callback, with sample_rate folded     *)
(* in), so the float sums of the source are exact integer sums here.       *)
(* Instants of the transmitter are integer clock readings.                 *)
(***************************************************************************)
EXTENDS Integers, Sequences, FiniteSets, TLC

VARIABLES
    \* ---- shared between the two processes
    lock,                 \* LOCK_FILE exists
    \* ---- receiver: AudioReceiverAgent fields
    pre_roll_buffer,      \* self.pre_roll_buffer
    recording,            \* self.recording
    audio_frames,         \* self.audio_frames
    silence_counter,      \* self.silence_counter
    recording_duration,   \* self.recording_duration
    put_tasks,            \* queue.put tasks scheduled with call_soon_threadsafe
    audio_queue,          \* self.audio_queue
    \* ---- receiver: observation (history) variables
    tick,                 \* number of callbacks delivered so far
    emitted,              \* number of Recording -> Idle transitions so far
    loud_seen,            \* some processed frame had rms > audio_threshold
    trig,                 \* the start of the current/last recording
    last_utt,             \* the utterance of the last Recording -> Idle transition
    sc,                   \* burst-then-silence scenario monitor
    \* ---- receiver: the transcription worker (_process_audio_queue)
    rx_terminate_flag,    \* self.terminate_flag of the receiver
    wpc,                  \* where the worker stands
    audio_data,           \* the utterance the worker took from the queue
    \* ---- receiver: observation (history) variable of the worker
    worklog,              \* what _transcribe_audio did, one entry per call
    \* ---- transmitter: the two threads around _play_audio
    terminate_flag,       \* self.terminate_flag
    debug_mode,           \* self.debug_mode
    pc,                   \* where each thread stands
    job,                  \* what each thread is speaking
    response_queue,       \* self.response_queue
    drop_dir,             \* the files in transcriptions_dir
    processed_dir,        \* the files in processed_transcriptions_dir
    rx_clock,             \* the second of the last file name written
    dropped,              \* number of record files written so far
    batch,                \* new_transcriptions of the current poll, what is left
    plan,                 \* what pass 1 gave for the current record
    temp_file,            \* content of temp_response.wav, 0 when absent
    \* ---- transmitter: observation (history) variables of the two threads
    dispatched,           \* the records the for loop took up, in order
    \* ---- transmitter: the polling thread's dispatch of one record
    now,                  \* datetime.now()
    personas,             \* self.personas, in insertion order
    activation_phrases_set, \* self.activation_phrases_set
    persona_names,        \* what __init__ has still to load of self.persona_names
    active_persona,       \* self.active_persona
    last_interaction_time,\* self.last_interaction_time
    conversation_history, \* self.conversation_history
    assistant_responses,  \* self.assistant_responses
    dpc,                  \* where the polling thread stands in the loop body
    cur,                  \* the record being handled
    responding_persona,   \* what _should_respond returned
    first_pass_text,      \* what pass 1 returned
    tool_result,          \* what _invoke_tool returned, <<>> for None
    final_user_text_lines_pass1, \* the lines of pass 1 kept for the final text
    second_pass_text,     \* what pass 2 returned
    handled,              \* number of records taken up so far
    messages,             \* messages / messages2: the prompt built for the record
    \* ---- transmitter: observation (history) variables
    all_responses,        \* the last texts _call_gpt4 recorded, oldest first
    sel,                  \* the last call of _should_respond
    just_appended,        \* the last step appended to conversation_history
    events                \* what was done for the record being handled, in order

rxvars == <<pre_roll_buffer, recording, audio_frames, silence_counter,
            recording_duration, put_tasks, audio_queue>>
rxobs  == <<tick, emitted, loud_seen, trig, last_utt, sc>>
wkvars == <<rx_terminate_flag, wpc, audio_data, worklog>>
fsvars == <<processed_dir, rx_clock, dispatched>>
txvars == <<terminate_flag, debug_mode, pc, job, response_queue, drop_dir,
            dropped, batch, plan, temp_file, fsvars>>
txvars_but_pc == <<terminate_flag, debug_mode, job, response_queue, drop_dir,
                   dropped, batch, plan, temp_file, fsvars>>
dsvars == <<now, personas, active_persona, last_interaction_time,
            conversation_history, assistant_responses, dpc, cur,
            responding_persona, first_pass_text, tool_result,
            final_user_text_lines_pass1, second_pass_text, handled,
            messages>>
dsobs  == <<all_responses, sel, just_appended, events>>
ldvars == <<activation_phrases_set, persona_names>>
vars   == <<lock, rxvars, rxobs, wkvars, txvars, dsvars, dsobs, ldvars>>

----------------------------------------------------------------------------
(* Bounds of the model *)
MaxTicks == 6
MaxRecords == 2
MaxHandled == 2
MaxTime == 3
MaxUtterances == 2
MaxPersonas == 2

(* Receiver configuration (settings.py), in samples *)
AUDIO_THRESHOLD == 1
SILENCE_THRESHOLD == 2
MIN_RECORDING_DURATION == 4
MAX_RECORDING_DURATION == 8
PRE_ROLL_DURATION == 2
queue_size == 1

(* Transmitter configuration (settings.py) *)
RESPONSE_QUEUE_MAX_SIZE == 1
CONTEXT_EXPIRATION == 1
CONVERSATION_HISTORY_LIMIT == 2
CONVERSATION_TIMEOUT == 1
ASSISTANT_RESPONSES_KEPT == 2

RmsLevels == 0..2          \* below, at and above audio_threshold
FrameCounts == {1, 2}      \* `frames` of one callback (blocksize is not fixed)

Sum(s) ==
    LET RECURSIVE go(_)
        go(i) == IF i = 0 THEN 0 ELSE s[i].n + go(i - 1)
    IN go(Len(s))

----------------------------------------------------------------------------
(* Receiver: the segmentation engine *)

\* (faulty variant) the callback does not look at the lock file
CallbackMuted_NoCheck(lk) == FALSE

\* os.path.exists(LOCK_FILE) at the head of the callback
CallbackMuted(lk) == lk

\* pre-roll update: append, then pop one when longer than pre_roll_frames
PreRollUpdate(buf, frame, frames) ==
    LET pre_roll_frames == PRE_ROLL_DURATION \div frames
        b == Append(buf, frame)
    IN IF Len(b) > pre_roll_frames THEN Tail(b) ELSE b

\* (faulty variant) the guard taken with >= instead of >
StartsRecording_AtThreshold(rec, rms) == ~rec /\ rms >= AUDIO_THRESHOLD

\* the Idle -> Recording guard
StartsRecording(rec, rms) == ~rec /\ rms > AUDIO_THRESHOLD

\* (faulty variant) the recording starts from an empty buffer
StartFrames_Empty(pre) == <<>>

\* _start_recording: the recording buffer is a copy of the pre-roll buffer
StartFrames(pre) == pre

\* (faulty variant) a frame at the threshold resets the counter
SilenceUpdate_Strict(sil, rms, frames) ==
    IF rms < AUDIO_THRESHOLD THEN sil + frames ELSE 0

\* _handle_recording: the silence counter
SilenceUpdate(sil, rms, frames) ==
    IF rms <= AUDIO_THRESHOLD THEN sil + frames ELSE 0

\* (faulty variant) the silence condition taken strictly
ShouldStopRecording_StrictSilence(sil, dur) ==
    /\ (sil > SILENCE_THRESHOLD \/ dur >= MAX_RECORDING_DURATION)
    /\ dur >= MIN_RECORDING_DURATION

\* (faulty variant) the minimum duration is not asked for
ShouldStopRecording_NoMin(sil, dur) ==
    sil >= SILENCE_THRESHOLD \/ dur >= MAX_RECORDING_DURATION

\* (faulty variant) the maximum duration is not looked at
ShouldStopRecording_NoMax(sil, dur) ==
    sil >= SILENCE_THRESHOLD /\ dur >= MIN_RECORDING_DURATION

\* _should_stop_recording
ShouldStopRecording(sil, dur) ==
    /\ (sil >= SILENCE_THRESHOLD \/ dur >= MAX_RECORDING_DURATION)
    /\ dur >= MIN_RECORDING_DURATION

\* (faulty variant) the put is scheduled whatever the queue holds
StopSchedules_Always(q) == TRUE

\* _stop_recording: the queue.put is scheduled unless the queue is full
\* (self.loop is set by start() before the stream exists)
StopSchedules(q) == Len(q) < queue_size

\* what self.loop.call_soon_threadsafe(...) does: it returns, or raises
\* RuntimeError (the loop is closed), which _stop_recording catches
ScheduleOutcomes == {"scheduled", "runtime_error"}

\* (faulty variant) the buffer is cleared only when the put was scheduled
StopFrames_KeptOnDrop(af, fate) == IF fate = "scheduled" THEN <<>> ELSE af

\* _stop_recording: self.audio_frames = [], after the try statement
StopFrames(af, fate) == <<>>

\* what became of the utterance _stop_recording built
Fate(q, outcome) == IF ~StopSchedules(q) THEN "full" ELSE outcome

ScNone == [phase |-> "none", d |-> 0, q |-> 0, emits |-> 0, udur |-> 0]

\* The monitor of one scenario: from Idle, loud frames of total duration d,
\* then frames at or below the threshold.  It follows the processed frames.
ScUpdate(m, wasRecording, rms, frames, stopped, udur) ==
    LET loud == rms > AUDIO_THRESHOLD
        e == IF stopped THEN 1 ELSE 0
        count(x) == [x EXCEPT !.emits = @ + e,
                              !.udur = IF stopped /\ @ = 0 THEN udur ELSE @]
    IN IF ~wasRecording /\ loud
         THEN count([ScNone EXCEPT !.phase = "burst", !.d = frames])
       ELSE IF m.phase = "burst" /\ loud
         THEN count([m EXCEPT !.d = @ + frames])
       ELSE IF m.phase = "burst" /\ ~loud
         THEN IF MIN_RECORDING_DURATION <= m.d /\ m.d < MAX_RECORDING_DURATION
                THEN count([m EXCEPT !.q = frames,
                                     !.phase = IF frames >= SILENCE_THRESHOLD
                                               THEN "done" ELSE "quiet"])
                ELSE ScNone
       ELSE IF m.phase = "quiet" /\ ~loud
         THEN count([m EXCEPT !.q = @ + frames,
                              !.phase = IF m.q + frames >= SILENCE_THRESHOLD
                                        THEN "done" ELSE "quiet"])
       ELSE ScNone

\* _audio_callback(indata, frames, ...) with rms = sqrt(mean(indata^2))
AudioCallback(rms, frames) ==
    /\ tick < MaxTicks
    /\ tick' = tick + 1
    /\ UNCHANGED <<lock, wkvars, txvars, dsvars, dsobs, ldvars>>
    /\ IF CallbackMuted(lock)
         THEN UNCHANGED <<rxvars, emitted, loud_seen, trig, last_utt, sc>>
         ELSE
           LET frame  == [id |-> tick + 1, n |-> frames,
                          loud |-> rms > AUDIO_THRESHOLD]
               pre    == PreRollUpdate(pre_roll_buffer, frame, frames)
               starts == StartsRecording(recording, rms)
               rec1   == recording \/ starts
               af1    == IF starts THEN StartFrames(pre) ELSE audio_frames
               sil1   == IF starts THEN 0 ELSE silence_counter
               dur1   == IF starts THEN 0 ELSE recording_duration
               \* _handle_recording
               af2    == Append(af1, frame)
               dur2   == dur1 + frames
               sil2   == SilenceUpdate(sil1, rms, frames)
               stop   == rec1 /\ ShouldStopRecording(sil2, dur2)
               trig1  == IF starts THEN [id |-> tick + 1, pre |-> pre] ELSE trig
           IN /\ pre_roll_buffer' = pre
              /\ loud_seen' = (loud_seen \/ rms > AUDIO_THRESHOLD)
              /\ trig' = trig1
              /\ IF ~rec1
                   THEN /\ UNCHANGED <<recording, audio_frames, silence_counter,
                                       recording_duration, put_tasks, audio_queue,
                                       emitted, last_utt>>
                        /\ sc' = ScUpdate(sc, recording, rms, frames, FALSE, 0)
                   ELSE /\ silence_counter' = sil2
                        /\ recording_duration' = dur2
                        /\ UNCHANGED audio_queue
                        /\ sc' = ScUpdate(sc, recording, rms, frames, stop, Sum(af2))
                        /\ IF stop
                             THEN \* _stop_recording
                                  \E outcome \in ScheduleOutcomes :
                                    LET fate == Fate(audio_queue, outcome)
                                    IN /\ recording' = FALSE
                                       /\ audio_frames' = StopFrames(af2, fate)
                                       /\ put_tasks' = IF fate = "scheduled"
                                                         THEN Append(put_tasks, af2)
                                                         ELSE put_tasks
                                       /\ emitted' = emitted + 1
                                       /\ last_utt' = [frames |-> af2,
                                                       trig |-> trig1,
                                                       dur |-> dur2,
                                                       fate |-> fate]
                             ELSE /\ recording' = TRUE
                                  /\ audio_frames' = af2
                                  /\ UNCHANGED <<put_tasks, emitted, last_utt>>

\* the event loop runs a scheduled task: await self.audio_queue.put(audio_data)
RunPutTask ==
    /\ put_tasks # <<>>
    /\ Len(audio_queue) < queue_size
    /\ audio_queue' = Append(audio_queue, Head(put_tasks))
    /\ put_tasks' = Tail(put_tasks)
    /\ UNCHANGED <<lock, pre_roll_buffer, recording, audio_frames,
                   silence_counter, recording_duration, rxobs, wkvars,
                   txvars, dsvars, dsobs, ldvars>>

\* _process_audio_queue: audio_data = await self.audio_queue.get()
ProcessAudioQueue ==
    /\ audio_queue # <<>>
    /\ audio_queue' = Tail(audio_queue)
    /\ UNCHANGED <<lock, pre_roll_buffer, recording, audio_frames,
                   silence_counter, recording_duration, put_tasks, rxobs,
                   wkvars, txvars, dsvars, dsobs, ldvars>>

\* the transmitter process creates or removes LOCK_FILE
LockFlips ==
    /\ lock' = ~lock
    /\ UNCHANGED <<rxvars, rxobs, wkvars, txvars, dsvars, dsobs, ldvars>>

RxInit ==
    /\ pre_roll_buffer = <<>>
    /\ recording = FALSE
    /\ audio_frames = <<>>
    /\ silence_counter = 0
    /\ recording_duration = 0
    /\ put_tasks = <<>>
    /\ audio_queue = <<>>
    /\ tick = 0
    /\ emitted = 0
    /\ loud_seen = FALSE
    /\ trig = [id |-> 0, pre |-> <<>>]
    /\ last_utt = [frames |-> <<>>, trig |-> [id |-> 0, pre |-> <<>>], dur |-> 0,
                   fate |-> "none"]
    /\ sc = ScNone
    /\ rx_terminate_flag = FALSE
    /\ wpc = "test"
    /\ audio_data = <<>>
    /\ worklog = <<>>


----------------------------------------------------------------------------
(* Transmitter: the polling thread ("gen", _generate_response) and the     *)
(* delivery thread ("tx", _transmit_responses) around _play_audio          *)

Threads == {"gen", "tx"}
AudioExts == {"wav", "mp3", "other"}
PlayerResults == {"completed", "called_process_error", "os_error"}
NoJob == [id |-> 0, ext |-> "none", result |-> "none", raised |-> FALSE]
NoPlan == [say |-> FALSE, final |-> FALSE]

\* the text of record k: its SAY line, its final response
SayId(k) == 2 * k - 1
FinalId(k) == 2 * k

\* (faulty variant) the names are taken from the last to the first
SortedSeq_Descending(S) ==
    LET RECURSIVE go(_)
        go(T) == IF T = {} THEN <<>>
                 ELSE LET m == CHOOSE x \in T : \A y \in T : x >= y
                      IN <<m>> \o go(T \ {m})
    IN go(S)

\* sorted(os.listdir(...)): a name is transcription_%Y%m%d_%H%M%S.json and is
\* modelled by the second it names
SortedSeq(S) ==
    LET RECURSIVE go(_)
        go(T) == IF T = {} THEN <<>>
                 ELSE LET m == CHOOSE x \in T : \A y \in T : x <= y
                      IN <<m>> \o go(T \ {m})
    IN go(S)

\* a file: its name, the record written in it (numbered in the order of
\* capture) and whether json.load and the field lookups succeed on it
File(name, id, ok) == [name |-> name, id |-> id, ok |-> ok]

FileNamed(dir, name) == CHOOSE f \in dir : f.name = name

\* _load_new_transcriptions: the files are read in the order of their names;
\* the first one that cannot be parsed ends the loop (one try around it)
LoadNewTranscriptions(dir) ==
    LET files == SortedSeq({f.name : f \in dir})
        RECURSIVE results(_)
        results(k) ==
            IF k > Len(files) \/ ~FileNamed(dir, files[k]).ok THEN <<>>
            ELSE <<[name |-> files[k], id |-> FileNamed(dir, files[k]).id]>>
                     \o results(k + 1)
    IN results(1)

\* where a thread goes on when the speech it asked for is over
AfterSpeech(t) == IF t = "gen" THEN "g_put" ELSE "idle"

\* where an exception leaving _play_audio ends: the delivery loop catches
\* it, nothing catches it in the polling thread
AfterRaise(t) == IF t = "gen" THEN "dead" ELSE "idle"

\* (faulty variant) the lock is removed on the success path only
AfterPlayer_NoFinally(t, result) ==
    IF result = "completed" THEN "pa_finally" ELSE AfterSpeech(t)

\* _play_audio: whatever the try block did, the finally block runs
AfterPlayer(t, result) == "pa_finally"

TxUnchangedRx == UNCHANGED <<rxvars, rxobs, wkvars, dsvars, dsobs, ldvars>>

\* a file appears in the drop directory: the receiver's _save_json_output
\* writes transcription_<second>.json, over a file of the same name if there
\* is one (here the files are written in different seconds); a file put
\* there may be unparseable
DropRecord ==
    /\ dropped < MaxRecords
    /\ \E ok \in BOOLEAN :
         LET name == rx_clock + 1
         IN /\ rx_clock' = name
            /\ drop_dir' = {f \in drop_dir : f.name # name}
                               \cup {File(name, dropped + 1, ok)}
    /\ dropped' = dropped + 1
    /\ UNCHANGED <<lock, terminate_flag, debug_mode, pc, job, response_queue,
                   batch, plan, temp_file, processed_dir, dispatched>>
    /\ TxUnchangedRx

\* stop(): self.terminate_flag.set()
Stop ==
    /\ ~terminate_flag
    /\ terminate_flag' = TRUE
    /\ UNCHANGED <<lock, debug_mode, pc, job, response_queue, drop_dir,
                   dropped, batch, plan, temp_file>>
    /\ UNCHANGED fsvars
    /\ TxUnchangedRx

\* _generate_response: the while test and _load_new_transcriptions
GenPoll ==
    /\ pc["gen"] = "idle"
    /\ IF terminate_flag
         THEN /\ pc' = [pc EXCEPT !["gen"] = "exited"]
              /\ UNCHANGED batch
         ELSE /\ drop_dir # {}
              /\ batch' = LoadNewTranscriptions(drop_dir)
              /\ pc' = [pc EXCEPT !["gen"] = "g_rec"]
    /\ UNCHANGED <<lock, terminate_flag, debug_mode, job, response_queue,
                   drop_dir, dropped, plan, temp_file, processed_dir, rx_clock,
                   dispatched>>
    /\ TxUnchangedRx

\* the for loop: the next record, its pass 1 and the SAY line of it
GenRecord ==
    /\ pc["gen"] = "g_rec"
    /\ IF batch = <<>>
         THEN /\ pc' = [pc EXCEPT !["gen"] = "idle"]
              /\ UNCHANGED <<plan, job, dispatched>>
         ELSE \E say \in BOOLEAN, final \in BOOLEAN :
                /\ plan' = [say |-> say, final |-> final]
                /\ dispatched' = Append(dispatched, Head(batch))
                /\ IF say
                     THEN /\ job' = [job EXCEPT !["gen"] =
                                        [NoJob EXCEPT !.id = SayId(Head(batch).id)]]
                          /\ pc' = [pc EXCEPT !["gen"] = "tts"]
                     ELSE /\ pc' = [pc EXCEPT !["gen"] = "g_put"]
                          /\ UNCHANGED job
    /\ UNCHANGED <<lock, terminate_flag, debug_mode, response_queue, drop_dir,
                   dropped, batch, temp_file, processed_dir, rx_clock>>
    /\ TxUnchangedRx

\* self.response_queue.put(...): waits while the queue is full
GenPut ==
    /\ pc["gen"] = "g_put"
    /\ IF plan.final
         THEN /\ Len(response_queue) < RESPONSE_QUEUE_MAX_SIZE
              /\ response_queue' = Append(response_queue, FinalId(Head(batch).id))
         ELSE UNCHANGED response_queue
    /\ pc' = [pc EXCEPT !["gen"] = "g_move"]
    /\ UNCHANGED <<lock, terminate_flag, debug_mode, job, drop_dir, dropped,
                   batch, plan, temp_file, fsvars>>
    /\ TxUnchangedRx

\* _move_processed_file: shutil.move of the file of that name, over a file
\* of the same name in the processed directory (both directories exist and
\* nothing else takes files out of the drop directory, so the move succeeds)
GenMove ==
    /\ pc["gen"] = "g_move"
    /\ LET filename == Head(batch).name
       IN /\ drop_dir' = {f \in drop_dir : f.name # filename}
          /\ processed_dir' = {f \in processed_dir : f.name # filename}
                                  \cup {f \in drop_dir : f.name = filename}
    /\ batch' = Tail(batch)
    /\ pc' = [pc EXCEPT !["gen"] = "g_rec"]
    /\ UNCHANGED <<lock, terminate_flag, debug_mode, job, response_queue,
                   dropped, plan, temp_file, rx_clock, dispatched>>
    /\ TxUnchangedRx

\* _transmit_responses: the while test and response_queue.get(timeout=1)
TxGet ==
    /\ pc["tx"] = "idle"
    /\ IF terminate_flag
         THEN /\ pc' = [pc EXCEPT !["tx"] = "exited"]
              /\ UNCHANGED <<response_queue, job>>
         ELSE /\ response_queue # <<>>
              /\ job' = [job EXCEPT !["tx"] =
                            [NoJob EXCEPT !.id = Head(response_queue)]]
              /\ response_queue' = Tail(response_queue)
              /\ pc' = [pc EXCEPT !["tx"] = "tts"]
    /\ UNCHANGED <<lock, terminate_flag, debug_mode, drop_dir, dropped, batch,
                   plan, temp_file>>
    /\ UNCHANGED fsvars
    /\ TxUnchangedRx

\* _text_to_speech: synthesize_text writes temp_response.wav (renamed away
\* in debug mode) and returns its path, or returns None
TextToSpeech(t) ==
    /\ pc[t] = "tts"
    /\ \/ \E ext \in AudioExts :
            /\ job' = [job EXCEPT ![t].ext = ext]
            /\ temp_file' = IF debug_mode THEN 0 ELSE job[t].id
            /\ pc' = [pc EXCEPT ![t] = "pa_lock"]
       \/ /\ pc' = [pc EXCEPT ![t] = AfterSpeech(t)]
          /\ UNCHANGED <<job, temp_file>>
    /\ UNCHANGED <<lock, terminate_flag, debug_mode, response_queue, drop_dir,
                   dropped, batch, plan>>
    /\ UNCHANGED fsvars
    /\ TxUnchangedRx

\* _play_audio: self._create_lock()
CreateLock(t) ==
    /\ pc[t] = "pa_lock"
    /\ lock' = TRUE
    /\ pc' = [pc EXCEPT ![t] = "pa_run"]
    /\ UNCHANGED txvars_but_pc
    /\ TxUnchangedRx

\* _play_audio: the player is chosen by the extension and started
RunPlayer(t) ==
    /\ pc[t] = "pa_run"
    /\ IF job[t].ext \in {"wav", "mp3"}
         THEN /\ pc' = [pc EXCEPT ![t] = "pa_player"]
              /\ UNCHANGED job
         ELSE /\ job' = [job EXCEPT ![t].result = "unsupported"]
              /\ pc' = [pc EXCEPT ![t] = AfterPlayer(t, "unsupported")]
    /\ UNCHANGED <<lock, terminate_flag, debug_mode, response_queue, drop_dir,
                   dropped, batch, plan, temp_file>>
    /\ UNCHANGED fsvars
    /\ TxUnchangedRx

\* _play_audio: subprocess.run returns, raises CalledProcessError (caught)
\* or raises something else (not caught: it leaves after the finally block)
PlayerExits(t) ==
    /\ pc[t] = "pa_player"
    /\ \E r \in PlayerResults :
         /\ job' = [job EXCEPT ![t].result = r, ![t].raised = (r = "os_error")]
         /\ pc' = [pc EXCEPT ![t] = AfterPlayer(t, r)]
    /\ UNCHANGED <<lock, terminate_flag, debug_mode, response_queue, drop_dir,
                   dropped, batch, plan, temp_file>>
    /\ UNCHANGED fsvars
    /\ TxUnchangedRx

\* the finally block: time.sleep(1.5), then _remove_lock's exists test
FinallyBlock(t) ==
    /\ pc[t] = "pa_finally"
    /\ pc' = [pc EXCEPT ![t] = IF lock THEN "pa_rm" ELSE "pa_cleanup"]
    /\ UNCHANGED <<lock, txvars_but_pc>>
    /\ TxUnchangedRx

\* _remove_lock: time.sleep(1), then os.remove(LOCK_FILE), which raises
\* FileNotFoundError when the file is gone by then
RemoveLock(t) ==
    /\ pc[t] = "pa_rm"
    /\ IF lock
         THEN /\ lock' = FALSE
              /\ pc' = [pc EXCEPT ![t] = "pa_cleanup"]
              /\ UNCHANGED job
         ELSE /\ UNCHANGED lock
              /\ job' = [job EXCEPT ![t].raised = TRUE]
              /\ pc' = [pc EXCEPT ![t] = AfterRaise(t)]
    /\ UNCHANGED <<terminate_flag, debug_mode, response_queue, drop_dir,
                   dropped, batch, plan, temp_file>>
    /\ UNCHANGED fsvars
    /\ TxUnchangedRx

\* the finally block: the exists test on the audio file
Cleanup(t) ==
    /\ pc[t] = "pa_cleanup"
    /\ pc' = [pc EXCEPT ![t] =
                IF ~debug_mode /\ temp_file # 0 THEN "pa_unlink"
                ELSE IF job[t].raised THEN AfterRaise(t) ELSE AfterSpeech(t)]
    /\ UNCHANGED <<lock, txvars_but_pc>>
    /\ TxUnchangedRx

\* the finally block: os.remove(audio_file), which raises FileNotFoundError
\* when the file is gone by then
Unlink(t) ==
    /\ pc[t] = "pa_unlink"
    /\ IF temp_file # 0
         THEN /\ temp_file' = 0
              /\ pc' = [pc EXCEPT ![t] =
                          IF job[t].raised THEN AfterRaise(t) ELSE AfterSpeech(t)]
              /\ UNCHANGED job
         ELSE /\ UNCHANGED temp_file
              /\ job' = [job EXCEPT ![t].raised = TRUE]
              /\ pc' = [pc EXCEPT ![t] = AfterRaise(t)]
    /\ UNCHANGED <<lock, terminate_flag, debug_mode, response_queue, drop_dir,
                   dropped, batch, plan>>
    /\ UNCHANGED fsvars
    /\ TxUnchangedRx

TxInit ==
    /\ terminate_flag = FALSE
    /\ pc = [t \in Threads |-> "idle"]
    /\ job = [t \in Threads |-> NoJob]
    /\ response_queue = <<>>
    /\ drop_dir = {}
    /\ processed_dir = {}
    /\ rx_clock = 0
    /\ dropped = 0
    /\ batch = <<>>
    /\ dispatched = <<>>
    /\ plan = NoPlan
    /\ temp_file = 0

PlayStep(t) ==
    \/ TextToSpeech(t)
    \/ CreateLock(t)
    \/ RunPlayer(t)
    \/ PlayerExits(t)
    \/ FinallyBlock(t)
    \/ RemoveLock(t)
    \/ Cleanup(t)
    \/ Unlink(t)

GenStep == GenPoll \/ GenRecord \/ GenPut \/ GenMove \/ PlayStep("gen")
TxStep == TxGet \/ PlayStep("tx")

NextTx ==
    \/ DropRecord
    \/ Stop
    \/ GenPoll
    \/ GenRecord
    \/ GenPut
    \/ GenMove
    \/ TxGet
    \/ \E t \in Threads : TextToSpeech(t)
    \/ \E t \in Threads : CreateLock(t)
    \/ \E t \in Threads : RunPlayer(t)
    \/ \E t \in Threads : PlayerExits(t)
    \/ \E t \in Threads : FinallyBlock(t)
    \/ \E t \in Threads : RemoveLock(t)
    \/ \E t \in Threads : Cleanup(t)
    \/ \E t \in Threads : Unlink(t)

InPlayAudio(t) ==
    pc[t] \in {"pa_run", "pa_player", "pa_finally", "pa_rm"}

\* C1 as stated: while a thread's player runs, the lock file exists.
C1_LockHeldWhilePlaying ==
    \A t \in Threads : pc[t] = "pa_player" => lock

\* C2: the lock file does not outlive the calls of _play_audio, however the
\* player ended: whenever it exists it is removed later, and it exists only
\* while some thread is between _create_lock and the end of _remove_lock.
C2_LockEventuallyCleared ==
    /\ lock ~> ~lock
    /\ []((\A t \in Threads : ~InPlayAudio(t)) => ~lock)

\* a playback that failed, or had an unsupported format, is over and the
\* lock file is gone
C2_Witness ==
    \E t \in Threads :
        /\ job[t].result \in {"called_process_error", "os_error", "unsupported"}
        /\ pc[t] \in {"idle", "g_put", "dead"}
        /\ ~lock

----------------------------------------------------------------------------
(* Transmitter: texts.  A text is a sequence of symbols; the markers the   *)
(* code looks for are single symbols.                                      *)

SP == " "
Ch_a == "a"
Ch_A == "A"
Ch_b == "b"
Ch_c == "c"
NL == "\n"
SAY == "SAY:"
TOOL_CALL == "TOOL_CALL"
TOOL_RESPONSE == "TOOL_RESPONSE "
COLON == ":"
InventoryLookupTool == "InventoryLookupTool"
lookup == "lookup"
LOOKUP_RESULT == "<what lookup returned>"
NO_COLON == "Invalid format, no colon found after tool name."
NO_METHOD_ARGS == ": no method args."
NOT_IN_TOOLS == ": not found in self.tools."
METHOD_NOT_FOUND == ": method not found."
MILITARY_TIME == "{military_time}"
HHMM == "<what _get_military_time returned>"
PROMPT_P1 == "prompt of p1"
PROMPT_P2 == "prompt of p2"
PROMPT_P3 == "prompt of p3"
DOT == "."
YOU == "you"

IsSpace(c) == c \in {SP, NL}

RECURSIVE LStrip(_)
LStrip(s) == IF s # <<>> /\ IsSpace(Head(s)) THEN LStrip(Tail(s)) ELSE s

RECURSIVE RStrip(_)
RStrip(s) ==
    IF s # <<>> /\ IsSpace(s[Len(s)]) THEN RStrip(SubSeq(s, 1, Len(s) - 1)) ELSE s

\* str.strip()
Strip(s) == RStrip(LStrip(s))

\* str.lower()
Lower(s) ==
    IF s = <<>> THEN <<>>
    ELSE [i \in 1..Len(s) |-> IF s[i] = Ch_A THEN Ch_a ELSE s[i]]

\* p in s
Contains(p, s) ==
    \E i \in 0..(Len(s) - Len(p)) : SubSeq(s, i + 1, i + Len(p)) = p

\* str.splitlines()
RECURSIVE SplitLines(_)
SplitLines(s) ==
    IF s = <<>> THEN <<>>
    ELSE IF \E i \in 1..Len(s) : s[i] = NL
      THEN LET k == CHOOSE i \in 1..Len(s) :
                        s[i] = NL /\ \A j \in 1..(i - 1) : s[j] # NL
           IN <<SubSeq(s, 1, k - 1)>> \o SplitLines(SubSeq(s, k + 1, Len(s)))
      ELSE <<s>>

----------------------------------------------------------------------------
(* Transmitter: the polling thread's dispatch of one record                *)

None == "none"
NoTime == -1

TTS_PROVIDER == "openai"
DEFAULT_VOICE == "onyx"

Persona1 == [name |-> "p1", activation_phrases |-> << <<Ch_A>> >>,
             voices |-> [openai |-> "ash"],
             prompt |-> <<PROMPT_P1, MILITARY_TIME>>]
Persona2 == [name |-> "p2", activation_phrases |-> << <<Ch_b>> >>,
             voices |-> [unrealspeech |-> "Dan"],
             prompt |-> <<MILITARY_TIME, SP, PROMPT_P2>>]
Persona3 == [name |-> "p3", activation_phrases |-> << <<Ch_a>>, <<Ch_c>> >>,
             voices |-> [unrealspeech |-> "Liv"],
             prompt |-> <<PROMPT_P3>>]

\* no file of that name, or one json.load cannot read
NoPersonaFile == [name |-> "px", activation_phrases |-> <<>>, voices |-> <<>>,
                  prompt |-> <<>>]

\* the persona files named at start-up, in the order they are loaded
PersonaFiles == {<<>>, <<Persona1>>, <<Persona1, Persona2>>}

\* what the receiver may have transcribed: " a", "A ", "b", "c"
Transcripts == {<<SP, Ch_a>>, <<Ch_A, SP>>, <<Ch_b>>, <<Ch_c>>}

\* what the language model may answer: " a ", "SAY:c",
\* "TOOL_CALL b\nTOOL_CALL a:",
\* "SAY:c\nTOOL_CALL InventoryLookupTool:lookup a\nc"
Completions ==
    {<<SP, Ch_a, SP>>, <<SAY, Ch_c>>,
     <<TOOL_CALL, SP, Ch_b, NL, TOOL_CALL, SP, Ch_a, COLON>>,
     <<SAY, Ch_c, NL,
       TOOL_CALL, SP, InventoryLookupTool, COLON, lookup, SP, Ch_a, NL, Ch_c>>}

\* what it may answer to the prompt that ends with a TOOL_RESPONSE entry
Pass2Completions == {<<SP, Ch_a, SP>>, <<SAY, Ch_c>>}

\* the tool_response field of a record: absent, or a text
ToolResponses == {<<>>, <<Ch_b>>}

\* how long before it is loaded a record was written
Lags == {0, CONTEXT_EXPIRATION + 1}

\* the records the polling loop may find: written just now, with or without
\* a tool_response field, or written too long ago
RecordFields ==
    {f \in [lag : Lags, tool_response : ToolResponses] :
        f.lag = 0 \/ f.tool_response = <<>>}

NoRecord == [timestamp |-> 0, transcription |-> <<>>, tool_response |-> <<>>]
NoSel == [text |-> <<>>, at |-> NoTime, result |-> None,
          prev_active |-> None, prev_last |-> NoTime]

PersonaNames(ps) == {ps[i].name : i \in 1..Len(ps)}

\* _should_respond: the transcription is one of our own recent responses
IsEcho(text, responses) ==
    \E i \in 1..Len(responses) : Strip(text) = Strip(responses[i])

\* phrase.lower() in transcription_lower
PhraseMatches(phrase, text) == Contains(Lower(phrase), Lower(text))

PersonaMatches(p, text) ==
    \E i \in 1..Len(p.activation_phrases) :
        PhraseMatches(p.activation_phrases[i], text)

\* the first persona, in the registry's order, with a matching phrase; 0 if none
Activated(text, ps) ==
    IF \E i \in 1..Len(ps) : PersonaMatches(ps[i], text)
      THEN CHOOSE i \in 1..Len(ps) :
               /\ PersonaMatches(ps[i], text)
               /\ \A j \in 1..(i - 1) : ~PersonaMatches(ps[j], text)
      ELSE 0

\* _load_persona: {} when the file is missing or cannot be read.  Otherwise
\* a phrase whose lower-case form is in activation_phrases_set already is
\* logged and not added to the set, and the dictionary returned holds the
\* phrases of the file, all of them
LoadPersona(data, phrases_set) ==
    IF data = NoPersonaFile
      THEN [p_data |-> <<>>, activation_phrases_set |-> phrases_set]
      ELSE [p_data |-> data,
            activation_phrases_set |->
                phrases_set \cup {Lower(data.activation_phrases[i]) :
                                     i \in 1..Len(data.activation_phrases)}]

\* __init__: p_data = self._load_persona(name)
\*           if p_data: self.personas[name] = p_data
StorePersona(ps, p_data) ==
    IF p_data = <<>> THEN ps
    ELSE LET at == {i \in 1..Len(ps) : ps[i].name = p_data.name}
         IN IF at = {} THEN Append(ps, p_data)
            ELSE [ps EXCEPT ![CHOOSE i \in at : TRUE] = p_data]

\* __init__: for name in self.persona_names
RECURSIVE LoadPersonas(_, _, _)
LoadPersonas(files, ps, phrases_set) ==
    IF files = <<>>
      THEN [personas |-> ps, activation_phrases_set |-> phrases_set]
      ELSE LET r == LoadPersona(Head(files), phrases_set)
           IN LoadPersonas(Tail(files), StorePersona(ps, r.p_data),
                           r.activation_phrases_set)

\* self.personas after __init__, for each list of persona files
Registries == {LoadPersonas(files, <<>>, {}).personas : files \in PersonaFiles}

\* (faulty variant) the session is over as soon as the timeout is reached
SelectAfterEcho_StrictTimeout(text, ps, active, last, t, pick) ==
    IF Activated(text, ps) # 0
      THEN [result |-> ps[Activated(text, ps)].name,
            active |-> ps[Activated(text, ps)].name, last |-> t]
    ELSE IF active # None /\ t - last < CONVERSATION_TIMEOUT
      THEN [result |-> active, active |-> active, last |-> t]
    ELSE IF Len(ps) = 1
      THEN [result |-> ps[1].name, active |-> ps[1].name, last |-> t]
    ELSE IF Len(ps) > 1
      THEN [result |-> pick, active |-> pick, last |-> t]
    ELSE [result |-> None, active |-> None, last |-> last]

\* (faulty variant) nobody answers when several personas are loaded and none
\* is active
SelectAfterEcho_NoRandomChoice(text, ps, active, last, t, pick) ==
    IF Activated(text, ps) # 0
      THEN [result |-> ps[Activated(text, ps)].name,
            active |-> ps[Activated(text, ps)].name, last |-> t]
    ELSE IF active # None /\ t - last <= CONVERSATION_TIMEOUT
      THEN [result |-> active, active |-> active, last |-> t]
    ELSE IF Len(ps) = 1
      THEN [result |-> ps[1].name, active |-> ps[1].name, last |-> t]
    ELSE [result |-> None, active |-> None, last |-> last]

\* (faulty variant) a session that timed out is cleared and nobody answers
SelectAfterEcho_TimeoutSilences(text, ps, active, last, t, pick) ==
    IF Activated(text, ps) # 0
      THEN [result |-> ps[Activated(text, ps)].name,
            active |-> ps[Activated(text, ps)].name, last |-> t]
    ELSE IF active # None /\ t - last <= CONVERSATION_TIMEOUT
      THEN [result |-> active, active |-> active, last |-> t]
    ELSE IF active # None
      THEN [result |-> None, active |-> None, last |-> last]
    ELSE IF Len(ps) = 1
      THEN [result |-> ps[1].name, active |-> ps[1].name, last |-> t]
    ELSE IF Len(ps) > 1
      THEN [result |-> pick, active |-> pick, last |-> t]
    ELSE [result |-> None, active |-> None, last |-> last]

\* the steps of _should_respond after the echo test; pick is random.choice
SelectAfterEcho(text, ps, active, last, t, pick) ==
    IF Activated(text, ps) # 0
      THEN [result |-> ps[Activated(text, ps)].name,
            active |-> ps[Activated(text, ps)].name, last |-> t]
    ELSE IF active # None /\ t - last <= CONVERSATION_TIMEOUT
      THEN [result |-> active, active |-> active, last |-> t]
    ELSE IF Len(ps) = 1
      THEN [result |-> ps[1].name, active |-> ps[1].name, last |-> t]
    ELSE IF Len(ps) > 1
      THEN [result |-> pick, active |-> pick, last |-> t]
    ELSE [result |-> None, active |-> None, last |-> last]

\* (faulty variant) the echo test comes after the activation test
ShouldRespond_ActivationFirst(text, ps, responses, active, last, t, pick) ==
    IF Activated(text, ps) # 0
      THEN SelectAfterEcho(text, ps, active, last, t, pick)
    ELSE IF IsEcho(text, responses)
      THEN [result |-> None, active |-> active, last |-> last]
    ELSE SelectAfterEcho(text, ps, active, last, t, pick)

\* (faulty variant) a session that goes on is looked at before the phrases
ShouldRespond_SessionFirst(text, ps, responses, active, last, t, pick) ==
    IF IsEcho(text, responses)
      THEN [result |-> None, active |-> active, last |-> last]
    ELSE IF active # None /\ t - last <= CONVERSATION_TIMEOUT
      THEN [result |-> active, active |-> active, last |-> t]
    ELSE SelectAfterEcho(text, ps, active, last, t, pick)

\* (faulty variant) an echo ends the session
ShouldRespond_EchoEndsSession(text, ps, responses, active, last, t, pick) ==
    IF IsEcho(text, responses)
      THEN [result |-> None, active |-> None, last |-> last]
      ELSE SelectAfterEcho(text, ps, active, last, t, pick)

\* _should_respond(transcription): the persona to answer, and the session
\* state it leaves
ShouldRespond(text, ps, responses, active, last, t, pick) ==
    IF IsEcho(text, responses)
      THEN [result |-> None, active |-> active, last |-> last]
      ELSE SelectAfterEcho(text, ps, active, last, t, pick)

\* _call_gpt4: self.assistant_responses = self.assistant_responses[-10:]
KeepResponses(rs) ==
    IF Len(rs) > ASSISTANT_RESPONSES_KEPT
      THEN SubSeq(rs, Len(rs) - ASSISTANT_RESPONSES_KEPT + 1, Len(rs)) ELSE rs

Entry(ts, role, content) ==
    [timestamp |-> ts, role |-> role, content |-> content]

\* _update_conversation_history: append, expire, cap
UpdateConversationHistory(h, rec, t) ==
    LET h1 == Append(h, Entry(rec.timestamp, "user", rec.transcription))
        h2 == IF rec.tool_response # <<>>
                THEN Append(h1, Entry(rec.timestamp, "assistant", rec.tool_response))
                ELSE h1
        cutoff_time == t - CONTEXT_EXPIRATION
        h3 == SelectSeq(h2, LAMBDA m : m.timestamp >= cutoff_time)
    IN IF Len(h3) > CONVERSATION_HISTORY_LIMIT
         THEN SubSeq(h3, Len(h3) - CONVERSATION_HISTORY_LIMIT + 1, Len(h3))
         ELSE h3

\* the place of the first c in s, 0 when there is none
IndexOf(s, c) ==
    IF \E i \in 1..Len(s) : s[i] = c
      THEN CHOOSE i \in 1..Len(s) : s[i] = c /\ \A k \in 1..(i - 1) : s[k] # c
      ELSE 0

\* self.tools, and the methods of the tool class
Tools == {<<InventoryLookupTool>>}
Methods == {<<lookup>>}

\* _invoke_tool: "Name: method args" is split at the first colon and the
\* first blank; every return of it is a non-empty string
InvokeTool(line) ==
    LET tool_line_inner == Strip(Tail(line))
        k == IndexOf(tool_line_inner, COLON)
        tool_name == Strip(SubSeq(tool_line_inner, 1, k - 1))
        remainder == Strip(SubSeq(tool_line_inner, k + 1, Len(tool_line_inner)))
        b == IndexOf(remainder, SP)
        method_name == Strip(SubSeq(remainder, 1, b - 1))
        method_args == Strip(SubSeq(remainder, b + 1, Len(remainder)))
    IN IF k = 0 THEN <<NO_COLON>>
       ELSE IF b = 0 THEN tool_name \o <<NO_METHOD_ARGS>>
       ELSE IF tool_name \notin Tools THEN tool_name \o <<NOT_IN_TOOLS>>
       ELSE IF method_name \notin Methods THEN tool_name \o <<METHOD_NOT_FOUND>>
       ELSE tool_name \o <<COLON, SP>> \o method_args \o <<SP, LOOKUP_RESULT>>

\* line_stripped.startswith(marker)
StartsWith(line, marker) == line # <<>> /\ Head(line) = marker

\* (faulty variant) the first result is kept
RECURSIVE ToolResultOf_First(_, _)
ToolResultOf_First(lines, acc) ==
    IF lines = <<>> THEN acc
    ELSE LET line_stripped == Strip(Head(lines))
         IN IF StartsWith(line_stripped, TOOL_CALL) /\ acc = <<>>
              THEN ToolResultOf_First(Tail(lines), InvokeTool(line_stripped))
              ELSE ToolResultOf_First(Tail(lines), acc)

\* the TOOL_CALL lines of pass 1, each overwriting tool_result
RECURSIVE ToolResultOf(_, _)
ToolResultOf(lines, acc) ==
    IF lines = <<>> THEN acc
    ELSE LET line_stripped == Strip(Head(lines))
         IN IF StartsWith(line_stripped, SAY)
              THEN ToolResultOf(Tail(lines), acc)
            ELSE IF StartsWith(line_stripped, TOOL_CALL)
              THEN ToolResultOf(Tail(lines), InvokeTool(line_stripped))
            ELSE ToolResultOf(Tail(lines), acc)

\* line_stripped.replace("SAY:", "").strip()
SayText(line_stripped) == Strip(SelectSeq(line_stripped, LAMBDA c : c # SAY))

Event(kind, text, voice) == [kind |-> kind, text |-> text, voice |-> voice]

\* (faulty variant) the SAY lines are dropped instead of spoken
RECURSIVE ParseEvents_NoSay(_)
ParseEvents_NoSay(lines) ==
    IF lines = <<>> THEN <<>>
    ELSE LET line_stripped == Strip(Head(lines))
         IN IF StartsWith(line_stripped, SAY)
              THEN ParseEvents_NoSay(Tail(lines))
            ELSE IF StartsWith(line_stripped, TOOL_CALL)
              THEN <<Event("tool", InvokeTool(line_stripped), None)>>
                       \o ParseEvents_NoSay(Tail(lines))
            ELSE ParseEvents_NoSay(Tail(lines))

\* the loop over the lines of pass 1: what it does, in order
\* (_speak_immediately for a SAY line, _invoke_tool for a TOOL_CALL line)
RECURSIVE ParseEvents(_)
ParseEvents(lines) ==
    IF lines = <<>> THEN <<>>
    ELSE LET line_stripped == Strip(Head(lines))
         IN IF StartsWith(line_stripped, SAY)
              THEN <<Event("say", SayText(line_stripped), None)>>
                       \o ParseEvents(Tail(lines))
            ELSE IF StartsWith(line_stripped, TOOL_CALL)
              THEN <<Event("tool", InvokeTool(line_stripped), None)>>
                       \o ParseEvents(Tail(lines))
            ELSE ParseEvents(Tail(lines))

\* (faulty variant) the SAY lines are kept for the final text as well
RECURSIVE Leftover_WithSay(_)
Leftover_WithSay(lines) ==
    IF lines = <<>> THEN <<>>
    ELSE LET line_stripped == Strip(Head(lines))
         IN IF StartsWith(line_stripped, TOOL_CALL)
              THEN Leftover_WithSay(Tail(lines))
              ELSE <<line_stripped>> \o Leftover_WithSay(Tail(lines))

\* the loop over the lines of pass 1: final_user_text_lines_pass1
RECURSIVE Leftover(_)
Leftover(lines) ==
    IF lines = <<>> THEN <<>>
    ELSE LET line_stripped == Strip(Head(lines))
         IN IF StartsWith(line_stripped, SAY) \/ StartsWith(line_stripped, TOOL_CALL)
              THEN Leftover(Tail(lines))
              ELSE <<line_stripped>> \o Leftover(Tail(lines))

\* "\n".join(lines)
RECURSIVE Join(_)
Join(lines) ==
    IF lines = <<>> THEN <<>>
    ELSE IF Len(lines) = 1 THEN Head(lines)
    ELSE Head(lines) \o <<NL>> \o Join(Tail(lines))

\* final_user_text: pass 2's text if there is one, else what is left of pass 1
FinalUserText(second, left) ==
    IF second # <<>> THEN second ELSE Strip(Join(left))

\* persona_data['voices'].get(self.config.tts_provider, self.config.default_voice)
VoiceOf(ps, name) ==
    LET p == ps[CHOOSE i \in 1..Len(ps) : ps[i].name = name]
    IN IF TTS_PROVIDER \in DOMAIN p.voices
         THEN p.voices[TTS_PROVIDER] ELSE DEFAULT_VOICE

\* self.personas[responding_persona]
PersonaData(ps, name) == ps[CHOOSE i \in 1..Len(ps) : ps[i].name = name]

\* persona_data['prompt'].format(military_time=self._get_military_time())
Format(prompt) ==
    IF prompt = <<>> THEN <<>>
    ELSE [i \in 1..Len(prompt) |->
             IF prompt[i] = MILITARY_TIME THEN HHMM ELSE prompt[i]]

Message(role, content) == [role |-> role, content |-> content]

\* (faulty variant) the prompt ends with the entry before the last one
PrepareChatMessages_Stale(persona_data, h) ==
    <<Message("system", Format(persona_data.prompt))>>
        \o [i \in 1..(Len(h) - 1) |-> Message(h[i].role, h[i].content)]

\* _prepare_chat_messages: the system message, then the history in order
PrepareChatMessages(persona_data, h) ==
    <<Message("system", Format(persona_data.prompt))>>
        \o [i \in 1..Len(h) |-> Message(h[i].role, h[i].content)]

DsUnchangedOthers == UNCHANGED <<lock, rxvars, rxobs, wkvars, txvars, ldvars>>

\* time passes while the loop sleeps between two polls (the unit of the
\* clock is that of the timeouts; a completion call is short against it)
Elapse ==
    /\ now < MaxTime
    /\ dpc = "poll"
    /\ now' = now + 1
    /\ just_appended' = FALSE
    /\ UNCHANGED <<personas, active_persona, last_interaction_time,
                   conversation_history, assistant_responses, dpc, cur,
                   responding_persona, first_pass_text, tool_result,
                   final_user_text_lines_pass1, second_pass_text, handled,
                   messages, all_responses, sel, events>>
    /\ DsUnchangedOthers

\* the for loop takes up a record and calls _should_respond on it
SelectResponder ==
    /\ persona_names = <<>>
    /\ dpc = "poll"
    /\ handled < MaxHandled
    /\ \E text \in Transcripts, f \in RecordFields,
          pick \in PersonaNames(personas) \cup {None} :
         LET lag == f.lag
             tr == f.tool_response
             r == ShouldRespond(text, personas, assistant_responses,
                                active_persona, last_interaction_time, now, pick)
         IN /\ pick \in PersonaNames(personas) \/ personas = <<>>
            /\ lag <= now
            /\ cur' = [timestamp |-> now - lag, transcription |-> text,
                       tool_response |-> tr]
            /\ responding_persona' = r.result
            /\ active_persona' = r.active
            /\ last_interaction_time' = r.last
            /\ sel' = [text |-> text, at |-> now, result |-> r.result,
                       prev_active |-> active_persona,
                       prev_last |-> last_interaction_time]
            /\ dpc' = IF r.result # None THEN "update" ELSE "move"
    /\ handled' = handled + 1
    /\ just_appended' = FALSE
    /\ UNCHANGED <<now, personas, conversation_history, assistant_responses,
                   first_pass_text, tool_result, final_user_text_lines_pass1,
                   second_pass_text, messages, all_responses, events>>
    /\ DsUnchangedOthers

\* self._update_conversation_history(timestamp, transcription, tool_response)
\* and messages = self._prepare_chat_messages(persona_data)
UpdateHistory ==
    /\ dpc = "update"
    /\ conversation_history' = UpdateConversationHistory(conversation_history, cur, now)
    /\ messages' = PrepareChatMessages(PersonaData(personas, responding_persona),
                                       conversation_history')
    /\ just_appended' = TRUE
    /\ dpc' = "pass1"
    /\ UNCHANGED <<now, personas, active_persona, last_interaction_time,
                   assistant_responses, cur, responding_persona,
                   first_pass_text, tool_result, final_user_text_lines_pass1,
                   second_pass_text, handled, all_responses, sel, events>>
    /\ DsUnchangedOthers

\* the observation keeps one response more than the code is said to keep
LastResponses(rs) ==
    IF Len(rs) > ASSISTANT_RESPONSES_KEPT + 1
      THEN SubSeq(rs, Len(rs) - ASSISTANT_RESPONSES_KEPT, Len(rs)) ELSE rs

\* _call_gpt4: the completion is recorded and returned, or "" is returned
\* when the client is missing or the call raises
CallGpt4(next, pass) ==
    /\ dpc' = next
    /\ \/ \E c \in IF pass = 1 THEN Completions ELSE Pass2Completions :
            LET ai_text == Strip(c)
            IN /\ conversation_history' =
                      Append(conversation_history, Entry(now, "assistant", ai_text))
               /\ assistant_responses' =
                      KeepResponses(Append(assistant_responses, ai_text))
               /\ all_responses' = LastResponses(Append(all_responses, ai_text))
               /\ just_appended' = TRUE
               /\ events' = Append(events, Event("call", ai_text, None))
               /\ IF pass = 1
                    THEN first_pass_text' = ai_text /\ UNCHANGED second_pass_text
                    ELSE second_pass_text' = ai_text /\ UNCHANGED first_pass_text
       \/ /\ UNCHANGED <<conversation_history, assistant_responses, all_responses>>
          /\ just_appended' = FALSE
          /\ events' = Append(events, Event("call_failed", <<>>, None))
          /\ IF pass = 1
               THEN first_pass_text' = <<>> /\ UNCHANGED second_pass_text
               ELSE second_pass_text' = <<>> /\ UNCHANGED first_pass_text

\* pass 1
Pass1 ==
    /\ dpc = "pass1"
    /\ CallGpt4("parse", 1)
    /\ UNCHANGED <<now, personas, active_persona, last_interaction_time, cur,
                   responding_persona, tool_result,
                   final_user_text_lines_pass1, handled, messages, sel>>
    /\ DsUnchangedOthers

\* the events of a parse up to and with the first SAY line
UpToFirstSay(es) ==
    LET k == CHOOSE i \in 1..Len(es) :
                 es[i].kind = "say" /\ \A m \in 1..(i - 1) : es[m].kind # "say"
    IN SubSeq(es, 1, k)

\* the loop over the lines of pass 1.  _speak_immediately returns when the
\* playback is over, or an exception of the player leaves the thread
\* (_play_audio catches CalledProcessError only)
ParsePass1 ==
    /\ dpc = "parse"
    /\ LET lines_pass1 == SplitLines(first_pass_text)
           es == ParseEvents(lines_pass1)
       IN \/ /\ events' = events \o es
             /\ tool_result' = ToolResultOf(lines_pass1, <<>>)
             /\ final_user_text_lines_pass1' = Leftover(lines_pass1)
             /\ dpc' = IF ToolResultOf(lines_pass1, <<>>) # <<>>
                         THEN "tool" ELSE "final"
          \/ /\ \E i \in 1..Len(es) : es[i].kind = "say"
             /\ events' = events \o UpToFirstSay(es)
             /\ dpc' = "dead"
             /\ UNCHANGED <<tool_result, final_user_text_lines_pass1>>
    /\ just_appended' = FALSE
    /\ UNCHANGED <<now, personas, active_persona, last_interaction_time,
                   conversation_history, assistant_responses, cur,
                   responding_persona, first_pass_text, second_pass_text,
                   handled, messages, all_responses, sel>>
    /\ DsUnchangedOthers

\* a tool was called: the TOOL_RESPONSE entry is appended, and
\* messages2 = self._prepare_chat_messages(persona_data)
AppendToolResponse ==
    /\ dpc = "tool"
    /\ conversation_history' =
           Append(conversation_history,
                  Entry(now, "assistant", <<TOOL_RESPONSE>> \o tool_result))
    /\ messages' = PrepareChatMessages(PersonaData(personas, responding_persona),
                                       conversation_history')
    /\ just_appended' = TRUE
    /\ events' = Append(events,
                        Event("tool_response", <<TOOL_RESPONSE>> \o tool_result, None))
    /\ dpc' = "pass2"
    /\ UNCHANGED <<now, personas, active_persona, last_interaction_time,
                   assistant_responses, cur, responding_persona,
                   first_pass_text, tool_result, final_user_text_lines_pass1,
                   second_pass_text, handled, all_responses, sel>>
    /\ DsUnchangedOthers

\* pass 2
Pass2 ==
    /\ dpc = "pass2"
    /\ CallGpt4("final", 2)
    /\ UNCHANGED <<now, personas, active_persona, last_interaction_time, cur,
                   responding_persona, tool_result,
                   final_user_text_lines_pass1, handled, messages, sel>>
    /\ DsUnchangedOthers

\* final_user_text, and self.response_queue.put({'text': ..., 'voice': voice})
PutFinal ==
    /\ dpc = "final"
    /\ LET final_user_text ==
               FinalUserText(second_pass_text, final_user_text_lines_pass1)
           voice == VoiceOf(personas, responding_persona)
       IN events' = IF final_user_text # <<>>
                      THEN Append(events, Event("put", final_user_text, voice))
                      ELSE events
    /\ just_appended' = FALSE
    /\ dpc' = "move"
    /\ UNCHANGED <<now, personas, active_persona, last_interaction_time,
                   conversation_history, assistant_responses, cur,
                   responding_persona, first_pass_text, tool_result,
                   final_user_text_lines_pass1, second_pass_text, handled,
                   messages, all_responses, sel>>
    /\ DsUnchangedOthers

\* _move_processed_file, and on to the next record
MoveProcessed ==
    /\ dpc = "move"
    /\ dpc' = "poll"
    /\ cur' = NoRecord
    /\ responding_persona' = None
    /\ first_pass_text' = <<>>
    /\ tool_result' = <<>>
    /\ final_user_text_lines_pass1' = <<>>
    /\ second_pass_text' = <<>>
    /\ messages' = <<>>
    /\ sel' = NoSel
    /\ events' = <<>>
    /\ just_appended' = FALSE
    /\ UNCHANGED <<now, personas, active_persona, last_interaction_time,
                   conversation_history, assistant_responses, handled,
                   all_responses>>
    /\ DsUnchangedOthers

DsInit ==
    /\ now = 0
    /\ active_persona = None
    /\ last_interaction_time = NoTime
    /\ conversation_history = <<>>
    /\ assistant_responses = <<>>
    /\ dpc = "poll"
    /\ cur = NoRecord
    /\ responding_persona = None
    /\ first_pass_text = <<>>
    /\ tool_result = <<>>
    /\ final_user_text_lines_pass1 = <<>>
    /\ second_pass_text = <<>>
    /\ handled = 0
    /\ messages = <<>>
    /\ all_responses = <<>>
    /\ sel = NoSel
    /\ just_appended = FALSE
    /\ events = <<>>

NextDs ==
    \/ Elapse
    \/ SelectResponder
    \/ UpdateHistory
    \/ Pass1
    \/ ParsePass1
    \/ AppendToolResponse
    \/ Pass2
    \/ PutFinal
    \/ MoveProcessed

----------------------------------------------------------------------------
(* Receiver: the transcription worker (_process_audio_queue) and the      *)
(* record files it writes                                                  *)

\* what the transcription collaborator may do with an utterance: raise,
\* return None, or return a result with a text
ResultTexts ==
    {<<>>, <<SP>>, <<DOT>>, <<SP, DOT, SP>>, <<DOT, SP, DOT, SP, DOT>>,
     <<YOU>>, <<DOT, DOT>>, <<SP, Ch_a>>}
TranscriptionResults ==
    {[kind |-> "raised", text |-> <<>>], [kind |-> "none", text |-> <<>>]}
        \cup {[kind |-> "result", text |-> t] : t \in ResultTexts}

\* ignored_transcriptions = {".", ". . .", "you"}
ignored_transcriptions == {<<DOT>>, <<DOT, SP, DOT, SP, DOT>>, <<YOU>>}

\* (faulty variant) the text is looked up as it came
IsIgnored_NoStrip(text) == text \in ignored_transcriptions

\* result.text.strip() in ignored_transcriptions
IsIgnored(text) == Strip(text) \in ignored_transcriptions

\* _transcribe_audio: whether it comes to _save_json_output
\* (if result and result.text, then the filter)
Persisted(r) == r.kind = "result" /\ r.text # <<>> /\ ~IsIgnored(r.text)

\* _save_json_output: open(json_path, 'w') of transcription_<second>.json,
\* which truncates a file of that name
SaveJsonOutput(dir, second, id) ==
    {f \in dir : f.name # second} \cup {File(second, id, TRUE)}

\* the utterance of a completed recording, numbered in the order of capture
Utterance(k) == <<[id |-> k, n |-> MIN_RECORDING_DURATION, loud |-> TRUE]>>

WkUnchangedOthers ==
    UNCHANGED <<lock, pre_roll_buffer, recording, audio_frames, silence_counter,
                recording_duration, put_tasks, tick, loud_seen, trig, last_utt,
                sc, terminate_flag, debug_mode, pc, job, response_queue,
                dropped, batch, plan, temp_file, rx_clock, personas,
                active_persona, last_interaction_time, conversation_history,
                assistant_responses, dpc, cur, responding_persona,
                first_pass_text, tool_result, final_user_text_lines_pass1,
                second_pass_text, handled, messages, dsobs, ldvars>>

\* a recording ends and the put scheduled by _stop_recording runs:
\* await self.audio_queue.put(audio_data), which waits while the queue is full
UtteranceQueued ==
    /\ emitted < MaxUtterances
    /\ Len(audio_queue) < queue_size
    /\ audio_queue' = Append(audio_queue, Utterance(emitted + 1))
    /\ emitted' = emitted + 1
    /\ UNCHANGED <<wkvars, now, drop_dir, processed_dir, dispatched>>
    /\ WkUnchangedOthers

\* a second passes on the receiver's clock
Second ==
    /\ now < MaxTime
    /\ now' = now + 1
    /\ UNCHANGED <<wkvars, audio_queue, emitted, drop_dir, processed_dir,
                   dispatched>>
    /\ WkUnchangedOthers

\* stop(): self.terminate_flag.set()
RxStop ==
    /\ ~rx_terminate_flag
    /\ rx_terminate_flag' = TRUE
    /\ UNCHANGED <<wpc, audio_data, worklog, now, audio_queue, emitted,
                   drop_dir, processed_dir, dispatched>>
    /\ WkUnchangedOthers

\* _process_audio_queue: while not self.terminate_flag.is_set()
WorkerTest ==
    /\ wpc = "test"
    /\ wpc' = IF rx_terminate_flag THEN "exited" ELSE "get"
    /\ UNCHANGED <<rx_terminate_flag, audio_data, worklog, now, audio_queue,
                   emitted, drop_dir, processed_dir, dispatched>>
    /\ WkUnchangedOthers

\* _process_audio_queue: audio_data = await self.audio_queue.get(), which
\* waits, without a timeout, while the queue is empty
WorkerGet ==
    /\ wpc = "get"
    /\ audio_queue # <<>>
    /\ audio_data' = Head(audio_queue)
    /\ audio_queue' = Tail(audio_queue)
    /\ wpc' = "transcribe"
    /\ UNCHANGED <<rx_terminate_flag, worklog, now, emitted, drop_dir,
                   processed_dir, dispatched>>
    /\ WkUnchangedOthers

\* _transcribe_audio: the collaborator answers (seconds may have passed
\* since the get), the filter, and _save_json_output at the clock's second
TranscribeAudio ==
    /\ wpc = "transcribe"
    /\ \E r \in TranscriptionResults :
         LET id == audio_data[1].id
         IN /\ drop_dir' = IF Persisted(r)
                             THEN SaveJsonOutput(drop_dir, now, id) ELSE drop_dir
            /\ worklog' = Append(worklog,
                                 [id |-> id, result |-> r,
                                  file |-> IF Persisted(r) THEN now ELSE NoTime])
    /\ audio_data' = <<>>
    /\ wpc' = "test"
    /\ UNCHANGED <<rx_terminate_flag, now, audio_queue, emitted, processed_dir,
                   dispatched>>
    /\ WkUnchangedOthers

\* the dispatch engine takes a record up and moves its file (the
\* transmitter's for loop, _move_processed_file at its end)
EngineMoves ==
    /\ \E f \in drop_dir :
         /\ drop_dir' = drop_dir \ {f}
         /\ processed_dir' = {g \in processed_dir : g.name # f.name} \cup {f}
         /\ dispatched' = Append(dispatched, [name |-> f.name, id |-> f.id])
    /\ UNCHANGED <<wkvars, now, audio_queue, emitted>>
    /\ WkUnchangedOthers

WorkerStep == WorkerTest \/ WorkerGet \/ TranscribeAudio

NextWk ==
    \/ UtteranceQueued
    \/ Second
    \/ RxStop
    \/ WorkerTest
    \/ WorkerGet
    \/ TranscribeAudio
    \/ EngineMoves

----------------------------------------------------------------------------
(* The transmitter's specifications *)

\* the state after __init__: a stale lock file is removed, nothing is queued
InitTx ==
    /\ lock = FALSE
    /\ RxInit
    /\ TxInit
    /\ debug_mode \in BOOLEAN
    /\ DsInit
    /\ personas = <<>>
    /\ activation_phrases_set = {}
    /\ persona_names = <<>>

SpecTx == InitTx /\ [][NextTx]_vars

\* each thread is scheduled again and again, and every player process ends
FairSpecTx == SpecTx /\ WF_vars(GenStep) /\ WF_vars(TxStep)

\* the state after __init__, for each registry of loaded personas
InitDs ==
    /\ lock = FALSE
    /\ RxInit
    /\ TxInit
    /\ debug_mode = FALSE
    /\ DsInit
    /\ \E files \in PersonaFiles :
         /\ personas = LoadPersonas(files, <<>>, {}).personas
         /\ activation_phrases_set =
                LoadPersonas(files, <<>>, {}).activation_phrases_set
    /\ persona_names = <<>>

SpecDs == InitDs /\ [][NextDs]_vars

\* the persona files persona_names may name
PersonaStore == {Persona1, Persona2, Persona3, NoPersonaFile}

\* the lists of at most MaxPersonas names
NameLists ==
    UNION {[1..n -> PersonaStore] : n \in 0..MaxPersonas}

\* __init__: one turn of the loop over self.persona_names
LoadNextPersona ==
    /\ persona_names # <<>>
    /\ LET r == LoadPersona(Head(persona_names), activation_phrases_set)
       IN /\ personas' = StorePersona(personas, r.p_data)
          /\ activation_phrases_set' = r.activation_phrases_set
    /\ persona_names' = Tail(persona_names)
    /\ UNCHANGED <<lock, rxvars, rxobs, wkvars, txvars, dsobs, now,
                   active_persona, last_interaction_time, conversation_history,
                   assistant_responses, dpc, cur, responding_persona,
                   first_pass_text, tool_result, final_user_text_lines_pass1,
                   second_pass_text, handled, messages>>

\* the state at the head of the loading loop of __init__
InitLd ==
    /\ lock = FALSE
    /\ RxInit
    /\ TxInit
    /\ debug_mode = FALSE
    /\ DsInit
    /\ personas = <<>>
    /\ activation_phrases_set = {}
    /\ persona_names \in NameLists

\* the personas are loaded, then the polling thread takes up a record
NextLd ==
    \/ LoadNextPersona
    \/ SelectResponder

SpecLd == InitLd /\ [][NextLd]_vars

----------------------------------------------------------------------------
(* The receiver's specification *)

Init ==
    /\ lock = FALSE
    /\ RxInit
    /\ TxInit
    /\ debug_mode = FALSE
    /\ DsInit
    /\ personas = <<>>
    /\ activation_phrases_set = {}
    /\ persona_names = <<>>

Next ==
    \/ \E rms \in RmsLevels, frames \in FrameCounts : AudioCallback(rms, frames)
    \/ RunPutTask
    \/ ProcessAudioQueue
    \/ LockFlips

Spec == Init /\ [][Next]_vars

\* the transcription worker, utterances arriving in its queue
SpecWk == Init /\ [][NextWk]_vars

\* the event loop runs the worker's task whenever it can go on
FairSpecWk == SpecWk /\ WF_vars(WorkerStep)

----------------------------------------------------------------------------
(* Receiver: properties *)

\* The frames of an utterance captured strictly before the frame that
\* crossed the threshold.
PreRollBefore(u) == SelectSeq(u.frames, LAMBDA f : f.id < u.trig.id)

\* The frame count of the callback that crossed the threshold.
TriggerFrames(u) ==
    LET k == CHOOSE i \in 1..Len(u.frames) : u.frames[i].id = u.trig.id
    IN u.frames[k].n

MinFrames == CHOOSE n \in FrameCounts : \A m \in FrameCounts : n <= m

\* C3: a callback made while the lock file exists changes neither the
\* pre-roll buffer, the recording buffer, the recording flag, the silence
\* counter, the recording duration nor the utterance queue (with its
\* scheduled puts), whether or not a recording is in progress.
C3_MutedTickChangesNothing ==
    [][(lock /\ tick' = tick + 1) => UNCHANGED rxvars]_vars

\* a callback was muted in the middle of a recording
C3_Witness ==
    /\ recording /\ lock /\ tick > 0
    /\ audio_frames[Len(audio_frames)].id < tick

\* C4: as long as no processed frame had an rms above audio_threshold, the
\* engine has never entered Recording and has emitted nothing.
C4_QuietNeverRecords ==
    ~loud_seen => (~recording /\ emitted = 0 /\ audio_frames = <<>>)

\* several frames at or below the threshold were processed
C4_Witness ==
    ~loud_seen /\ tick >= 3 /\ Len(pre_roll_buffer) = 2

\* C5: once a burst of loud frames of duration d, min_duration <= d <
\* max_duration, begun in Idle, has been followed by silence_threshold of
\* frames at or below the threshold, exactly one utterance has been emitted
\* since the burst began, and its duration is at least d.
C5_BurstThenSilenceEmitsOne ==
    sc.phase = "done" => (sc.emits = 1 /\ sc.udur >= sc.d)

\* such a burst and silence have been processed
C5_Witness ==
    /\ sc.phase = "done" /\ sc.emits = 1
    /\ sc.d >= MIN_RECORDING_DURATION /\ sc.d < MAX_RECORDING_DURATION
    /\ sc.q >= SILENCE_THRESHOLD

\* C6 as stated: every emitted utterance holds at least one frame captured
\* strictly before the frame that crossed the threshold, and at most
\* int(pre_roll * sample_rate / frame_count) of them.
C6_AlwaysHasPreRoll ==
    emitted > 0 =>
        /\ Len(PreRollBefore(last_utt)) >= 1
        /\ Len(PreRollBefore(last_utt)) <= PRE_ROLL_DURATION \div TriggerFrames(last_utt)

\* C6 as amended: every emitted utterance begins with the pre-roll buffer of
\* the tick that crossed the threshold; the frames of it captured strictly
\* before that tick may be none, and number at most
\* int(pre_roll * sample_rate / frame_count) for the smallest frame_count.
C6_PreRollPrefixBounded ==
    emitted > 0 =>
        LET u == last_utt
            B == PreRollBefore(u)
        IN /\ Len(u.trig.pre) <= Len(u.frames)
           /\ SubSeq(u.frames, 1, Len(u.trig.pre)) = u.trig.pre
           /\ SubSeq(u.frames, 1, Len(B)) = B
           /\ \A i \in 1..Len(u.trig.pre) : u.trig.pre[i].id <= u.trig.id
           /\ Len(B) <= PRE_ROLL_DURATION \div MinFrames

\* an utterance with a frame of pre-roll from before the crossing
C6_Witness ==
    emitted > 0 /\ Len(PreRollBefore(last_utt)) >= 1

\* C7: the engine is back in Idle after a tick exactly when the counters
\* that tick left satisfy (silence_counter >= silence_threshold or
\* recording_duration >= max_duration) and recording_duration >=
\* min_duration: a recording that goes on does not satisfy it, a recording
\* that ended does, and no utterance has recording_duration < min_duration.
C7_StopExactlyWhenCondition ==
    /\ recording =>
          ~(/\ (silence_counter >= SILENCE_THRESHOLD
                  \/ recording_duration >= MAX_RECORDING_DURATION)
            /\ recording_duration >= MIN_RECORDING_DURATION)
    /\ (~recording /\ emitted > 0) =>
          /\ (silence_counter >= SILENCE_THRESHOLD
                \/ recording_duration >= MAX_RECORDING_DURATION)
          /\ recording_duration >= MIN_RECORDING_DURATION
          /\ last_utt.dur = recording_duration
    /\ emitted > 0 => last_utt.dur >= MIN_RECORDING_DURATION

\* the silence condition is met but the recording goes on, being too short
C7_Witness ==
    /\ recording
    /\ silence_counter >= SILENCE_THRESHOLD
    /\ recording_duration < MIN_RECORDING_DURATION

----------------------------------------------------------------------------
(* Transmitter dispatch: properties *)

\* _should_respond has just returned: nothing was recorded since
JustSelected ==
    /\ sel.at # NoTime
    /\ dpc = "update" \/ (dpc = "move" /\ sel.result = None)

\* the trimmed text equals the trimmed text of one of the last
\* ASSISTANT_RESPONSES_KEPT responses the language model gave
EchoOfRecent(text) ==
    \E i \in 1..Len(all_responses) :
        /\ i > Len(all_responses) - ASSISTANT_RESPONSES_KEPT
        /\ Strip(text) = Strip(all_responses[i])

\* the personas with an activation phrase that occurs in the text, case
\* ignored
Owners(text) ==
    {personas[i].name : i \in
        {j \in 1..Len(personas) :
            \E k \in 1..Len(personas[j].activation_phrases) :
                Contains(Lower(personas[j].activation_phrases[k]), Lower(text))}}

\* C8 as stated: after every append to the conversation history it holds at
\* most conversation_history_limit entries, none older than
\* context_expiration.
C8_HistoryBoundedAfterAppend ==
    just_appended =>
        /\ Len(conversation_history) <= CONVERSATION_HISTORY_LIMIT
        /\ \A i \in 1..Len(conversation_history) :
               now - conversation_history[i].timestamp <= CONTEXT_EXPIRATION

\* C9: a transcript whose trimmed text equals the trimmed text of one of
\* the last responses gets no responder, also when it holds an activation
\* phrase or a session is active.
C9_EchoSuppressed ==
    (JustSelected /\ EchoOfRecent(sel.text)) =>
        (sel.result = None /\ responding_persona = None)

\* an echo that holds an activation phrase, during a session, got no responder
C9_Witness ==
    /\ JustSelected /\ EchoOfRecent(sel.text)
    /\ Owners(sel.text) # {}
    /\ sel.prev_active # None
    /\ sel.at - sel.prev_last <= CONVERSATION_TIMEOUT
    /\ sel.result = None

\* C10: a transcript that is no echo and holds an activation phrase of a
\* loaded persona is answered by a persona owning such a phrase, which is
\* the active persona from then on, with last_interaction the time of the
\* call, whatever the session state was.
C10_ActivationPrecedence ==
    (JustSelected /\ ~EchoOfRecent(sel.text) /\ Owners(sel.text) # {}) =>
        /\ sel.result \in Owners(sel.text)
        /\ responding_persona = sel.result
        /\ active_persona = sel.result
        /\ last_interaction_time = sel.at

\* a phrase of one persona took the session over from the other persona,
\* whose session had not timed out
C10_Witness ==
    /\ JustSelected /\ ~EchoOfRecent(sel.text)
    /\ sel.prev_active = "p2"
    /\ sel.at - sel.prev_last <= CONVERSATION_TIMEOUT
    /\ sel.result = "p1" /\ active_persona = "p1"
    /\ Owners(sel.text) = {"p1"}

\* the call of _should_respond was made on a text that is no echo and holds
\* no activation phrase
PlainTranscript ==
    JustSelected /\ ~EchoOfRecent(sel.text) /\ Owners(sel.text) = {}

\* at the call a persona was active and the timeout had not been exceeded
SessionAlive ==
    sel.prev_active # None /\ sel.at - sel.prev_last <= CONVERSATION_TIMEOUT

\* C11: for a transcript that is no echo and holds no activation phrase, a
\* session that has not timed out (now - last_interaction <=
\* conversation_timeout) goes on with the same persona and last_interaction
\* becomes the time of the call; a session that has timed out is over
\* before the fallback runs, so that the answer is the fallback's.
C11_SessionContinues ==
    PlainTranscript =>
        /\ SessionAlive =>
              /\ sel.result = sel.prev_active
              /\ active_persona = sel.prev_active
              /\ last_interaction_time = sel.at
        /\ (sel.prev_active # None /\ ~SessionAlive) =>
              /\ sel.result \in PersonaNames(personas)
              /\ Len(personas) = 1 => sel.result = personas[1].name
              /\ active_persona = sel.result
              /\ last_interaction_time = sel.at

\* a session went on at the very limit of the timeout, two personas being
\* loaded
C11_Witness ==
    /\ PlainTranscript
    /\ Len(personas) = 2
    /\ sel.prev_active = "p2"
    /\ sel.at - sel.prev_last = CONVERSATION_TIMEOUT
    /\ sel.result = "p2" /\ last_interaction_time = sel.at

\* C12: with no active persona at the fallback (never set, or cleared by
\* the timeout), a transcript that is no echo and holds no activation phrase
\* is answered by the loaded persona when one is loaded and by a member of
\* the registry when several are; the answering persona is the active one
\* from then on.
C12_DefaultFallback ==
    (PlainTranscript /\ ~SessionAlive /\ personas # <<>>) =>
        /\ sel.result \in PersonaNames(personas)
        /\ Len(personas) = 1 => sel.result = personas[1].name
        /\ responding_persona = sel.result
        /\ active_persona = sel.result
        /\ last_interaction_time = sel.at

\* with two personas loaded and none active, the second one was chosen
C12_Witness ==
    /\ PlainTranscript
    /\ sel.prev_active = None
    /\ Len(personas) = 2
    /\ sel.result = "p2" /\ active_persona = "p2"

\* a record was handled by a persona and is about to be moved
RecordDone == dpc = "move" /\ sel.result # None

\* the places in the record's events of the events of some kinds
Places(kinds) == {i \in 1..Len(events) : events[i].kind \in kinds}

CallPlaces == Places({"call", "call_failed"})

\* the lines of a text, trimmed, that begin with the marker
MarkedLines(text, marker) ==
    SelectSeq([i \in 1..Len(SplitLines(text)) |-> Strip(SplitLines(text)[i])],
              LAMBDA l : l # <<>> /\ Head(l) = marker)

\* the lines of a text, trimmed, that begin with neither marker
PlainLines(text) ==
    SelectSeq([i \in 1..Len(SplitLines(text)) |-> Strip(SplitLines(text)[i])],
              LAMBDA l : l = <<>> \/ Head(l) \notin {SAY, TOOL_CALL})

\* the voice the persona's file gives for the configured provider
ConfiguredVoice(name) ==
    IF name = "p1" THEN "ash" ELSE DEFAULT_VOICE

\* the ResponseItems put for the record
PutEvents == SelectSeq(events, LAMBDA e : e.kind = "put")

ToolInvoked ==
    \E i \in Places({"tool"}) :
        events[i].text[Len(events[i].text)] = LOOKUP_RESULT

\* C14 as stated: unless a tool was invoked during pass 1, one completion
\* call is made for the record and no TOOL_RESPONSE entry is appended.
C14_SecondCallOnlyAfterTool ==
    (RecordDone /\ ~ToolInvoked) =>
        /\ Cardinality(CallPlaces) = 1
        /\ Places({"tool_response"}) = {}

C16_FailedCallPutsNothing ==
    (RecordDone /\ Places({"call_failed"}) # {}) =>
        /\ PutEvents = <<>>
        /\ \A i \in Places({"call_failed"}) : \A c \in CallPlaces : c <= i

\* the place of the last call of _invoke_tool made for the record
LastToolPlace ==
    CHOOSE i \in Places({"tool"}) : \A k \in Places({"tool"}) : k <= i

\* C28: when pass 1 holds several TOOL_CALL lines, _invoke_tool is called
\* for each of them, one TOOL_RESPONSE entry is appended to the history
\* after the last of these calls, carrying that last call's result, and one
\* second completion call is made.
C28_LastToolCallRetained ==
    (RecordDone /\ Len(MarkedLines(first_pass_text, TOOL_CALL)) >= 2) =>
        /\ Cardinality(Places({"tool"}))
               = Len(MarkedLines(first_pass_text, TOOL_CALL))
        /\ Cardinality(Places({"tool_response"})) = 1
        /\ \A i \in Places({"tool_response"}) :
              /\ LastToolPlace < i
              /\ events[i].text = <<TOOL_RESPONSE>> \o events[LastToolPlace].text
              /\ \E h \in 1..Len(conversation_history) :
                    /\ conversation_history[h].role = "assistant"
                    /\ conversation_history[h].content = events[i].text
              /\ Cardinality({c \in CallPlaces : c > i}) = 1
        /\ Cardinality(CallPlaces) = 2

\* pass 1 held two TOOL_CALL lines with different results, and the entry
\* appended carries the second one's
C28_Witness ==
    /\ RecordDone
    /\ Len(MarkedLines(first_pass_text, TOOL_CALL)) = 2
    /\ \E i, k \in Places({"tool"}) : events[i].text # events[k].text
    /\ \E i \in Places({"tool_response"}) :
          events[i].text = <<TOOL_RESPONSE, Ch_a, NO_METHOD_ARGS>>

\* the system message of a persona: the prompt of its file with the time of
\* day filled in
SystemMessageOf(name) ==
    Message("system", IF name = "p1" THEN <<PROMPT_P1, HHMM>>
                      ELSE <<HHMM, SP, PROMPT_P2>>)

\* C32: the prompt of the second completion call is the persona's system
\* message followed by the whole history as it stands, in order; its last
\* message is the assistant entry TOOL_RESPONSE <what _invoke_tool gave>
\* (<ToolName>: <args> <result> when a tool was invoked), and the message
\* before it is pass 1's own output.
C32_SecondPromptEndsWithToolResponse ==
    dpc = "pass2" =>
        LET n == Len(messages)
            h == conversation_history
        IN /\ n = Len(h) + 1 /\ n >= 3
           /\ messages[1] = SystemMessageOf(responding_persona)
           /\ \A i \in 1..Len(h) :
                 messages[i + 1] = Message(h[i].role, h[i].content)
           /\ messages[n] = Message("assistant", <<TOOL_RESPONSE>> \o tool_result)
           /\ messages[n - 1] = Message("assistant", first_pass_text)
           /\ ToolInvoked =>
                 /\ SubSeq(messages[n].content, 1, 3)
                        = <<TOOL_RESPONSE, InventoryLookupTool, COLON>>
                 /\ messages[n].content[Len(messages[n].content)] = LOOKUP_RESULT

\* a tool was invoked and the second prompt holds the system message, the
\* transcript, pass 1's output and the TOOL_RESPONSE entry
C32_Witness ==
    /\ dpc = "pass2" /\ ToolInvoked
    /\ Len(messages) >= 4
    /\ messages[Len(messages) - 2] = Message("user", cur.transcription)
    /\ messages[Len(messages)].content
           = <<TOOL_RESPONSE, InventoryLookupTool, COLON, SP, Ch_a, SP, LOOKUP_RESULT>>

\* C37 as stated: the prompt built for pass 1 holds the record's transcript
\* as a user message, whatever the record's timestamp.
C37_TranscriptInFirstPrompt ==
    dpc = "pass1" =>
        \E i \in 1..Len(messages) :
            messages[i] = Message("user", cur.transcription)

\* C34: _should_respond gives no responder only for an echo or when no
\* persona is loaded: with a persona loaded, a transcript that is no echo
\* gets a responder that is a key of the registry, also when the session
\* had timed out.
C34_ResponderUnlessEchoOrEmpty ==
    JustSelected =>
        /\ sel.result = None => (EchoOfRecent(sel.text) \/ personas = <<>>)
        /\ (personas # <<>> /\ ~EchoOfRecent(sel.text)) =>
              /\ sel.result \in PersonaNames(personas)
              /\ responding_persona = sel.result

\* two personas being loaded, a transcript without an activation phrase came
\* after the session had timed out and got a responder
C34_Witness ==
    /\ PlainTranscript
    /\ Len(personas) = 2
    /\ sel.prev_active # None
    /\ sel.at - sel.prev_last > CONVERSATION_TIMEOUT
    /\ sel.result \in PersonaNames(personas)

\* C35: a transcript suppressed as an echo leaves the session as it was:
\* the active persona and last_interaction keep their values, so that an
\* echo neither starts, switches nor prolongs a session.
C35_EchoLeavesSession ==
    (JustSelected /\ EchoOfRecent(sel.text)) =>
        /\ active_persona = sel.prev_active
        /\ last_interaction_time = sel.prev_last

\* an echo that holds the other persona's activation phrase came during a
\* session, later than the session's last interaction
C35_Witness ==
    /\ JustSelected /\ EchoOfRecent(sel.text)
    /\ sel.prev_active # None
    /\ Owners(sel.text) # {} /\ sel.prev_active \notin Owners(sel.text)
    /\ sel.at > sel.prev_last
    /\ active_persona = sel.prev_active
    /\ last_interaction_time = sel.prev_last

\* C36 as stated: every text given to _speak_immediately or put in the
\* response queue for the record is one _should_respond rejects as an echo:
\* a transcript equal to it matches one of the responses kept.
C36_SpokenTextsSuppressed ==
    \A i \in Places({"say", "put"}) :
        IsEcho(events[i].text, assistant_responses)

\* C26 as stated: no two loaded personas hold the same activation phrase,
\* case ignored.
C26_ActivationPhrasesUnique ==
    \A i, k \in 1..Len(personas) :
        i < k =>
            \A a \in 1..Len(personas[i].activation_phrases),
               b \in 1..Len(personas[k].activation_phrases) :
                Lower(personas[i].activation_phrases[a])
                    # Lower(personas[k].activation_phrases[b])

----------------------------------------------------------------------------
(* Transmitter polling loop: properties *)

\* the ids of the records in a directory
Ids(dir) == {f.id : f \in dir}

\* the polling thread is in the body of the for loop for that record
BeingHandled(r) ==
    /\ pc["gen"] \notin {"idle", "g_rec", "dead", "exited"}
    /\ batch # <<>> /\ Head(batch) = r

\* C17 as stated: the polling thread is in its loop as long as the shutdown
\* flag is not set, whatever the steps made for a record came to.
C17_PollingLoopNeverStops ==
    ~terminate_flag => pc["gen"] \notin {"dead", "exited"}

\* C18 as stated: no record is taken up twice, and a record that was taken
\* up and is no longer being handled is in the processed directory and not
\* in the drop directory.
C18_ConsumedExactlyOnce ==
    /\ \A i, k \in 1..Len(dispatched) : dispatched[i] = dispatched[k] => i = k
    /\ \A i \in 1..Len(dispatched) :
          BeingHandled(dispatched[i])
            \/ (/\ dispatched[i].id \in Ids(processed_dir)
                /\ dispatched[i].id \notin Ids(drop_dir))

\* a parseable record lies in the drop directory
Waiting(k) == \E f \in drop_dir : f.id = k /\ f.ok

\* C19 as stated: a parseable record in the drop directory is taken up and
\* moved by the polling loop sooner or later, whatever unparseable files lie
\* there, unless the loop is shut down or has ended.
C19_WellFormedEventuallyProcessed ==
    \A k \in 1..MaxRecords :
        Waiting(k) ~> (\/ k \in Ids(processed_dir)
                       \/ terminate_flag
                       \/ pc["gen"] = "dead")

\* C20: the records are taken up in the order of their capture: a record
\* captured before another one is never taken up after it.
C20_DispatchedInCaptureOrder ==
    \A i, k \in 1..Len(dispatched) :
        i < k => dispatched[i].id < dispatched[k].id

\* two records lay in the drop directory at one poll and both were taken up
C20_Witness ==
    /\ Len(dispatched) = 2
    /\ dispatched[1].id = 1 /\ dispatched[2].id = 2
    /\ Len(batch) = 1 /\ processed_dir # {}
    /\ drop_dir = {File(2, 2, TRUE)}

\* the polling thread is at self.response_queue.put(...)
AtPut == pc["gen"] = "g_put"

\* C24 as stated: the polling thread's enqueue can always go on, whatever
\* the response queue holds.
C24_PutNeverBlocks ==
    AtPut => ENABLED GenPut

\* both threads have ended: the joins of stop() return
ThreadsEnded ==
    pc["gen"] \in {"exited", "dead"} /\ pc["tx"] \in {"exited", "dead"}

\* C25 as stated: once the shutdown flag is set, both loops end.
C25_StopEndsBothLoops ==
    terminate_flag ~> ThreadsEnded

\* the audio file a thread had synthesised is still to be played or is
\* being played
HoldsArtifact(t) == pc[t] \in {"pa_lock", "pa_run", "pa_player"}

\* C38 as stated: the players of the two threads never run at the same
\* time.
C38_OnePlaybackAtATime ==
    ~(pc["gen"] = "pa_player" /\ pc["tx"] = "pa_player")

\* C39 as stated: with debug retention off, temp_response.wav holds what a
\* thread synthesised from its synthesis to the end of its playback.
C39_ArtifactPlayedIntact ==
    ~debug_mode =>
        \A t \in Threads : HoldsArtifact(t) => temp_file = job[t].id

\* C40 as stated: the final responses are played in the order they were
\* put in the queue, and while the SAY text of a record is played no final
\* response of an earlier record is still waiting to be played.
C40_SpeechInTranscriptOrder ==
    /\ \A i, k \in 1..Len(response_queue) :
           i < k => response_queue[i] < response_queue[k]
    /\ pc["tx"] \notin {"idle", "exited"} =>
           \A i \in 1..Len(response_queue) : job["tx"].id < response_queue[i]
    /\ pc["gen"] = "pa_player" =>
           /\ \A i \in 1..Len(response_queue) :
                  response_queue[i] > job["gen"].id
           /\ pc["tx"] \in {"tts", "pa_lock", "pa_run"} =>
                  job["tx"].id > job["gen"].id

----------------------------------------------------------------------------
(* Receiver queue: properties *)

\* C23: an utterance completed while the queue holds queue_size utterances
\* is not scheduled for the queue (it is dropped); the callback has no wait
\* in it, so that it can always be run; and the queue never holds more than
\* queue_size utterances.
C23_FullQueueDropsNewest ==
    /\ [](Len(audio_queue) <= queue_size)
    /\ [](ENABLED (\E rms \in RmsLevels, frames \in FrameCounts :
                      AudioCallback(rms, frames)) \/ tick >= MaxTicks)
    /\ [][(emitted' = emitted + 1 /\ Len(audio_queue) = queue_size)
             => put_tasks' = put_tasks]_vars

\* the last utterance completed is neither in the queue nor scheduled for
\* it, an earlier one still being in the queue
C23_Witness ==
    /\ emitted >= 2 /\ ~recording
    /\ put_tasks = <<>>
    /\ Len(audio_queue) = queue_size
    /\ \A i \in 1..Len(audio_queue) :
           audio_queue[i][1].id < last_utt.frames[1].id

\* the duration of the frames at or below the threshold that end a buffer
RECURSIVE QuietTail(_)
QuietTail(fs) ==
    IF fs = <<>> \/ fs[Len(fs)].loud THEN 0
    ELSE fs[Len(fs)].n + QuietTail(SubSeq(fs, 1, Len(fs) - 1))

\* a callback was processed with a recording in progress after the start
\* test: _handle_recording ran
HandledRecording ==
    /\ tick' = tick + 1 /\ ~lock
    /\ recording' \/ emitted' = emitted + 1

\* the frame _handle_recording appended
HandledFrame ==
    IF emitted' = emitted + 1
      THEN last_utt'.frames[Len(last_utt'.frames)]
      ELSE audio_frames'[Len(audio_frames')]

\* C29: in _handle_recording a frame with rms <= audio_threshold adds its
\* duration to the silence counter and a frame above it resets the counter
\* to zero; so the counter is the duration of the frames at or below the
\* threshold that end the recording buffer, and a recording that ended
\* before max_duration ends with at least silence_threshold of such frames.
C29_SilenceCounterTracksQuietTail ==
    /\ [][HandledRecording =>
            silence_counter' =
                IF HandledFrame.loud THEN 0
                ELSE (IF recording THEN silence_counter ELSE 0) + HandledFrame.n]_vars
    /\ [](recording => silence_counter = QuietTail(audio_frames))
    /\ []((emitted > 0 /\ ~recording) =>
             /\ silence_counter = QuietTail(last_utt.frames)
             /\ last_utt.dur < MAX_RECORDING_DURATION =>
                    QuietTail(last_utt.frames) >= SILENCE_THRESHOLD)

\* a recording whose silence counter was reset by a loud frame ended, before
\* max_duration, on two frames at or below the threshold
C29_Witness ==
    /\ emitted > 0 /\ ~recording
    /\ last_utt.dur < MAX_RECORDING_DURATION
    /\ silence_counter = SILENCE_THRESHOLD
    /\ LET fs == last_utt.frames
       IN /\ Len(fs) >= 5
          /\ ~fs[Len(fs)].loud /\ ~fs[Len(fs) - 1].loud
          /\ fs[Len(fs) - 2].loud /\ ~fs[Len(fs) - 3].loud
          /\ fs[Len(fs) - 3].id > last_utt.trig.id

\* C30: a callback processed during a recording adds its frames to
\* recording_duration, and the recording ends, an utterance being
\* completed, at the first one that brings it to max_duration and
\* min_duration, whatever the silence counter; no recording goes on with
\* both reached.
C30_RecordingEndsAtMaxDuration ==
    /\ [][HandledRecording =>
            /\ recording_duration' =
                   (IF recording THEN recording_duration ELSE 0) + HandledFrame.n
            /\ HandledFrame.n >= 1
            /\ (/\ recording_duration' >= MAX_RECORDING_DURATION
                /\ recording_duration' >= MIN_RECORDING_DURATION) =>
                   (~recording' /\ emitted' = emitted + 1
                     /\ last_utt'.dur = recording_duration')]_vars
    /\ [](recording =>
             (\/ recording_duration < MAX_RECORDING_DURATION
              \/ recording_duration < MIN_RECORDING_DURATION))

\* a recording ended at max_duration on a loud frame
C30_Witness ==
    /\ emitted > 0 /\ ~recording
    /\ recording_duration >= MAX_RECORDING_DURATION
    /\ silence_counter = 0
    /\ last_utt.frames[Len(last_utt.frames)].loud

\* C31: every Recording -> Idle transition, the utterance being scheduled
\* for the queue or dropped (queue full, or the scheduling raised), leaves
\* the recording flag false and the recording buffer empty; the buffer is
\* empty whenever no recording is in progress, and the buffer of a recording
\* is the pre-roll buffer of the tick that started it followed by frames
\* that arrived at that tick or later.
C31_StopClearsRecording ==
    /\ [][emitted' = emitted + 1 =>
            (~recording' /\ audio_frames' = <<>>)]_vars
    /\ [](~recording => audio_frames = <<>>)
    /\ [](recording =>
            /\ Len(trig.pre) < Len(audio_frames)
            /\ SubSeq(audio_frames, 1, Len(trig.pre)) = trig.pre
            /\ \A i \in (Len(trig.pre) + 1)..Len(audio_frames) :
                   audio_frames[i].id >= trig.id)

\* an utterance was dropped, the queue being full, and the next recording
\* is in progress
C31_Witness ==
    /\ emitted >= 2 /\ last_utt.fate = "full"
    /\ recording /\ trig.id > last_utt.trig.id
    /\ Len(audio_frames) >= 2

\* C33 as stated: no frame occurs twice in an utterance, and the frames of
\* an utterance are in the order of their arrival.
C33_FramesNeverDuplicated ==
    emitted > 0 =>
        \A i, k \in 1..Len(last_utt.frames) :
            i < k => last_utt.frames[i].id < last_utt.frames[k].id

----------------------------------------------------------------------------
(* Receiver worker: properties *)

\* the utterance was transcribed and not filtered: the collaborator gave a
\* text, and the trimmed text is not in the ignore list
Accepted(r) ==
    /\ r.kind = "result" /\ r.text # <<>>
    /\ Strip(r.text) \notin ignored_transcriptions

\* the records the dispatch engine has taken up
Consumed == {dispatched[i].id : i \in 1..Len(dispatched)}

\* C21 as stated: the record file written for an accepted utterance is in
\* the drop directory, under the name it was written with and holding that
\* utterance's record, until the dispatch engine takes it up.
C21_RecordNeverOverwritten ==
    \A i \in 1..Len(worklog) :
        (worklog[i].file # NoTime /\ worklog[i].id \notin Consumed) =>
            File(worklog[i].file, worklog[i].id, TRUE) \in drop_dir

\* C22: the collaborator is called at most once for an utterance; the call
\* leaves the drop directory as it was when the collaborator raised, gave
\* None or an empty text, or gave a text whose trimmed form is in the ignore
\* list, and adds exactly one record file, that utterance's, otherwise.
C22_AtMostOneRecord ==
    /\ [](\A i, k \in 1..Len(worklog) : worklog[i].id = worklog[k].id => i = k)
    /\ [][worklog' # worklog =>
            LET e == worklog'[Len(worklog')]
            IN /\ Len(worklog') = Len(worklog) + 1
               /\ IF Accepted(e.result)
                    THEN /\ drop_dir' \ drop_dir = {File(now, e.id, TRUE)}
                         /\ Cardinality(drop_dir') <= Cardinality(drop_dir) + 1
                    ELSE drop_dir' = drop_dir]_vars

\* a text that is in the ignore list once trimmed was dropped, and a text
\* was written
C22_Witness ==
    /\ Len(worklog) = 2
    /\ worklog[1].result.text = <<SP, DOT, SP>> /\ worklog[1].file = NoTime
    /\ worklog[2].result.text = <<SP, Ch_a>> /\ worklog[2].file # NoTime
    /\ Ids(drop_dir) = {2}

\* C27 as stated: once the shutdown flag is set the worker's loop ends,
\* whether or not another utterance arrives in the queue.
C27_WorkerExitsAfterStop ==
    rx_terminate_flag ~> wpc = "exited"

====
